---- MODULE Spec2Model ----
(***************************************************************************)
(* Model of src/script.js: the DOMContentLoaded handler (year stamp,       *)
(* active-link highlighter, listener registration) and the three listeners *)
(* it registers (navToggle click, nav link click, subscribeForm submit)    *)
(* together with the deferred message-clear timer callback.                *)
(*                                                                         *)
(* Text that is only compared for equality with a literal (message text,   *)
(* field values, aria-expanded) is a TLA+ string.  Text that the script    *)
(* takes apart (location.pathname, href) is a sequence of one-character    *)
(* strings, so that split('/') and pop() are computed, not assumed.        *)
(***************************************************************************)
EXTENDS Integers, Sequences, FiniteSets, TLC

VARIABLES
    pc,                \* "loading" before DOMContentLoaded has run, "ready" after
    clockYear,         \* new Date().getFullYear() of the runtime clock
    yearElPresent,     \* document.getElementById('year') !== null
    yearText,          \* textContent of #year
    navTogglePresent,  \* document.getElementById('navToggle') !== null
    mainNavPresent,    \* document.getElementById('mainNav') !== null
    open,              \* mainNav.classList.contains('open')
    ariaExpanded,      \* navToggle's aria-expanded attribute
    pathname,          \* location.pathname
    links,             \* document.querySelectorAll('.main-nav a'), in document order
    formPresent,       \* document.getElementById('subscribeForm') !== null
    msgPresent,        \* document.getElementById('formMsg') !== null
    emailPresent,      \* document.getElementById('subEmail') !== null
    msg,               \* textContent of #formMsg
    fields,            \* current values of the form's fields
    defaults,          \* default values of the form's fields (what reset() restores)
    timers,            \* pending setTimeout callbacks, in firing order
    nextTimerId,       \* handle the next setTimeout call returns
    now,               \* time since page load
    uncaught,          \* an uncaught TypeError was reported by a listener
    last,              \* history: the last event dispatched and the message before it
    toggles,           \* history: number of navToggle activations since load
    linkClicked,       \* history: some nav link has been clicked since load
    initOpen,          \* history: the panel's open flag when the page loaded
    preMarked,         \* history: the links the host page marked active itself
    lastSubmit         \* history: outcome of the most recent submission and the
                       \* number of timers that were pending when it happened

vars == <<pc, clockYear, yearElPresent, yearText, navTogglePresent, mainNavPresent,
          open, ariaExpanded, pathname, links, formPresent, msgPresent,
          emailPresent, msg, fields, defaults, timers, nextTimerId, now,
          uncaught, last, toggles, linkClicked, initOpen, preMarked,
          lastSubmit>>

navVars  == <<navTogglePresent, mainNavPresent, open, ariaExpanded, toggles,
              linkClicked, initOpen, preMarked>>
pageVars == <<clockYear, yearElPresent, pathname, formPresent, msgPresent,
              emailPresent, defaults>>
formVars == <<msg, fields, timers, nextTimerId, lastSubmit>>

----------------------------------------------------------------------------
(* Bounds *)

MaxLen     == 1      \* longest directory prefix / short name in a path or href
MaxLinks   == 2      \* most links in the navigation container
MaxToggles == 3      \* most navToggle activations followed
MaxTimers  == 3      \* most setTimeout calls followed
MaxTime    == 7000   \* the clock is followed up to this time

(* Program constants *)

Delay       == 3500
ErrorText   == "Please enter a valid email."
SuccessText == "Thanks -- you are subscribed!"   \* the source has U+2014 for "--"
IndexHtml   == <<"i", "n", "d", "e", "x", ".", "h", "t", "m", "l">>

TickLen == Delay \div 2

----------------------------------------------------------------------------
(* Input domains *)

Alphabet == {"/", "a"}

ShortStrs == UNION {[1..k -> Alphabet] : k \in 0..MaxLen}

\* short strings, and 'index.html' alone or behind one more character
Hrefs == ShortStrs \cup {s \o IndexHtml : s \in {t \in ShortStrs : Len(t) <= 1}}

Paths == {<<"/">> \o s : s \in Hrefs}

LinkElems == [hasHref : BOOLEAN, href : Hrefs, active : BOOLEAN]

LinkLists == UNION {[1..k -> {l \in LinkElems : l.hasHref \/ l.href = <<>>}] : k \in 0..MaxLinks}

\* the pages and links of a two-page site: the home page and page 'a'
NavPaths == {<<"/">>, <<"/", "a">>}

NavLinkLists == {ls \in LinkLists : \A i \in 1..Len(ls) : ls[i].href \in {<<>>, <<"a">>}}

EmailValues == {"", "a@b.com"}
NameValues  == {"", "x"}
FieldValues == [subEmail : EmailValues, name : NameValues]
Years       == {1999, 2026}

----------------------------------------------------------------------------
(* Pure helpers of the script *)

Min(a, b) == IF a <= b THEN a ELSE b

\* String(b) for a boolean b
BoolStr(b) == IF b THEN "true" ELSE "false"

\* s.split('/')
RECURSIVE SplitSlash(_)
SplitSlash(s) ==
    LET idx == {i \in 1..Len(s) : s[i] = "/"}
    IN  IF idx = {} THEN <<s>>
        ELSE LET i == CHOOSE j \in idx : \A k \in idx : j <= k
             IN  <<SubSeq(s, 1, i - 1)>> \o SplitSlash(SubSeq(s, i + 1, Len(s)))

\* parts.pop() of a non-empty array
Pop(parts) == parts[Len(parts)]

\* location.pathname.split('/').pop() || 'index.html'
Current(path) ==
    LET seg == Pop(SplitSlash(path))
    IN  IF seg = <<>> THEN IndexHtml ELSE seg

\* mutant of Filename: an empty href is not replaced by 'index.html'
Filename_NoDefault(a) ==
    LET href == IF a.hasHref THEN a.href ELSE <<>>
    IN  Pop(SplitSlash(href))

\* target.split('/').pop(), where target is the href or 'index.html'
Filename(a) ==
    LET href   == IF a.hasHref THEN a.href ELSE <<>>
        target == IF href = <<>> THEN IndexHtml ELSE href
    IN  Pop(SplitSlash(target))

\* mutant of Highlight: merely additive, a stale marker is never removed
Highlight_Additive(a, current) ==
    IF Filename(a) = current THEN [a EXCEPT !.active = TRUE] ELSE a

\* the class list of link a after the highlighter has looked at it
Highlight(a, current) ==
    LET filename == Filename(a)
    IN  IF filename = current \/ (current = <<>> /\ filename = IndexHtml)
        THEN [a EXCEPT !.active = TRUE]
        ELSE [a EXCEPT !.active = FALSE]

----------------------------------------------------------------------------
(* Initial states: the host page before the script has run *)

InitCommon ==
    /\ pc = "loading"
    /\ yearText = ""
    /\ msg = ""
    /\ timers = <<>>
    /\ nextTimerId = 1
    /\ now = 0
    /\ uncaught = FALSE
    /\ last = [ev |-> "none", msgBefore |-> ""]
    /\ toggles = 0
    /\ linkClicked = FALSE
    /\ initOpen = open
    /\ preMarked = {i \in 1..Len(links) : links[i].active}
    /\ lastSubmit = [outcome |-> "none", pending |-> 0]
    /\ fields = defaults
    /\ ariaExpanded = BoolStr(open)

\* a page with links of any shape, a panel and no toggle control or form
InitLinks ==
    /\ clockYear = 2026
    /\ yearElPresent = TRUE
    /\ navTogglePresent = FALSE
    /\ mainNavPresent = TRUE
    /\ open \in BOOLEAN
    /\ pathname \in Paths
    /\ links \in LinkLists
    /\ formPresent = FALSE
    /\ msgPresent = FALSE
    /\ emailPresent = FALSE
    /\ defaults = [subEmail |-> "", name |-> ""]
    /\ InitCommon

\* a page of a two-page site with navigation and no subscription form
InitNav ==
    /\ clockYear = 2026
    /\ yearElPresent = TRUE
    /\ navTogglePresent \in BOOLEAN
    /\ mainNavPresent \in BOOLEAN
    /\ open \in (IF mainNavPresent THEN BOOLEAN ELSE {FALSE})
    /\ pathname \in NavPaths
    /\ links \in NavLinkLists
    /\ formPresent = FALSE
    /\ msgPresent = FALSE
    /\ emailPresent = FALSE
    /\ defaults = [subEmail |-> "", name |-> ""]
    /\ InitCommon

\* a page with a subscription form and no navigation
InitForm ==
    /\ clockYear \in Years
    /\ yearElPresent \in BOOLEAN
    /\ navTogglePresent = FALSE
    /\ mainNavPresent = FALSE
    /\ open = FALSE
    /\ pathname = <<"/">>
    /\ links = <<>>
    /\ formPresent \in BOOLEAN
    /\ msgPresent \in BOOLEAN
    /\ emailPresent \in BOOLEAN
    /\ defaults \in {d \in FieldValues : emailPresent \/ d.subEmail = ""}
    /\ InitCommon

----------------------------------------------------------------------------
(* Actions *)

\* the DOMContentLoaded listener
Load ==
    /\ pc = "loading"
    /\ pc' = "ready"
    /\ yearText' = IF yearElPresent THEN ToString(clockYear) ELSE yearText
    /\ links' = [i \in 1..Len(links) |-> Highlight(links[i], Current(pathname))]
    /\ last' = [ev |-> "load", msgBefore |-> msg]
    /\ UNCHANGED <<navVars, pageVars, formVars, now, uncaught>>

\* mutant of ToggleBody: classList.add instead of classList.toggle
ToggleBody_Add ==
    /\ open' = TRUE
    /\ ariaExpanded' = BoolStr(open')

\* body of the navToggle listener when #mainNav exists
ToggleBody ==
    /\ open' = ~open
    /\ ariaExpanded' = BoolStr(open')

\* the click listener of #navToggle; mainNav.classList throws when mainNav is null
ToggleClick ==
    /\ pc = "ready"
    /\ navTogglePresent
    /\ toggles < MaxToggles
    /\ toggles' = toggles + 1
    /\ last' = [ev |-> "toggle", msgBefore |-> msg]
    /\ IF mainNavPresent
       THEN /\ ToggleBody
            /\ UNCHANGED uncaught
       ELSE /\ uncaught' = TRUE
            /\ UNCHANGED <<open, ariaExpanded>>
    /\ UNCHANGED <<pc, yearText, links, pageVars, formVars, now,
                   navTogglePresent, mainNavPresent, linkClicked, initOpen,
                   preMarked>>

\* mutant of LinkBody: classList.toggle instead of a guarded remove
LinkBody_Toggle ==
    open' = ~open

\* body of a link's click listener when #mainNav exists
LinkBody ==
    open' = (IF open THEN FALSE ELSE open)

\* the click listener of the i-th navigation link; mainNav.classList throws
\* when mainNav is null
LinkClick(i) ==
    /\ pc = "ready"
    /\ i \in 1..Len(links)
    /\ linkClicked' = TRUE
    /\ last' = [ev |-> "link", msgBefore |-> msg]
    /\ IF mainNavPresent
       THEN /\ LinkBody
            /\ UNCHANGED uncaught
       ELSE /\ uncaught' = TRUE
            /\ UNCHANGED open
    /\ UNCHANGED <<pc, yearText, links, pageVars, formVars, now, ariaExpanded,
                   navTogglePresent, mainNavPresent, toggles, initOpen,
                   preMarked>>

\* the user edits a field of the form
Input ==
    /\ pc = "ready"
    /\ \E f \in FieldValues :
          /\ emailPresent \/ f.subEmail = fields.subEmail
          /\ f # fields
          /\ fields' = f
    /\ last' = [ev |-> "input", msgBefore |-> msg]
    /\ UNCHANGED <<pc, yearText, links, pageVars, navVars, now, uncaught,
                   msg, timers, nextTimerId, lastSubmit>>

\* mutant of SubmitEmpty: the form is reset on the error path too
SubmitEmpty_Reset ==
    /\ msg' = IF msgPresent THEN ErrorText ELSE msg
    /\ lastSubmit' = [outcome |-> "empty", pending |-> Len(timers)]
    /\ fields' = defaults
    /\ UNCHANGED <<timers, nextTimerId>>

\* the error path of the submit listener: !email
SubmitEmpty ==
    /\ msg' = IF msgPresent THEN ErrorText ELSE msg
    /\ lastSubmit' = [outcome |-> "empty", pending |-> Len(timers)]
    /\ UNCHANGED <<fields, timers, nextTimerId>>

\* mutant of SubmitOk: form.reset() is left out
SubmitOk_NoReset ==
    /\ nextTimerId <= MaxTimers
    /\ msg' = IF msgPresent THEN SuccessText ELSE msg
    /\ UNCHANGED fields
    /\ timers' = Append(timers, [id |-> nextTimerId, due |-> now + Delay])
    /\ nextTimerId' = nextTimerId + 1
    /\ lastSubmit' = [outcome |-> "ok", pending |-> Len(timers)]

\* mutant of SubmitOk: the pending clear is cancelled before a new one is set
SubmitOk_Cancel ==
    /\ nextTimerId <= MaxTimers
    /\ msg' = IF msgPresent THEN SuccessText ELSE msg
    /\ fields' = defaults
    /\ timers' = <<[id |-> nextTimerId, due |-> now + Delay]>>
    /\ nextTimerId' = nextTimerId + 1
    /\ lastSubmit' = [outcome |-> "ok", pending |-> Len(timers)]

\* the success path of the submit listener
SubmitOk ==
    /\ nextTimerId <= MaxTimers
    /\ msg' = IF msgPresent THEN SuccessText ELSE msg
    /\ fields' = defaults
    /\ timers' = Append(timers, [id |-> nextTimerId, due |-> now + Delay])
    /\ nextTimerId' = nextTimerId + 1
    /\ lastSubmit' = [outcome |-> "ok", pending |-> Len(timers)]

\* the submit listener of #subscribeForm
Submit ==
    /\ pc = "ready"
    /\ formPresent
    /\ last' = [ev |-> "submit", msgBefore |-> msg]
    /\ IF ~emailPresent \/ fields.subEmail = ""
       THEN SubmitEmpty
       ELSE SubmitOk
    /\ UNCHANGED <<pc, yearText, links, pageVars, navVars, now, uncaught>>

\* mutant of TimerFire: the callback clears only the success text
TimerFire_KeepError ==
    /\ timers # <<>>
    /\ Head(timers).due <= now
    /\ timers' = Tail(timers)
    /\ msg' = IF msgPresent /\ msg = SuccessText THEN "" ELSE msg
    /\ last' = [ev |-> "timer", msgBefore |-> msg]
    /\ UNCHANGED <<pc, yearText, links, pageVars, navVars, now, uncaught,
                   fields, nextTimerId, lastSubmit>>

\* the callback handed to setTimeout, run by the event loop when due
TimerFire ==
    /\ timers # <<>>
    /\ Head(timers).due <= now
    /\ timers' = Tail(timers)
    /\ msg' = IF msgPresent THEN "" ELSE msg
    /\ last' = [ev |-> "timer", msgBefore |-> msg]
    /\ UNCHANGED <<pc, yearText, links, pageVars, navVars, now, uncaught,
                   fields, nextTimerId, lastSubmit>>

\* time passes, up to the next due timer
Tick ==
    /\ pc = "ready"
    /\ IF timers = <<>> THEN TRUE ELSE Head(timers).due > now
    /\ now' = IF timers = <<>> THEN now + TickLen
              ELSE Min(now + TickLen, Head(timers).due)
    /\ now' <= MaxTime
    /\ last' = [ev |-> "tick", msgBefore |-> msg]
    /\ UNCHANGED <<pc, yearText, links, pageVars, navVars, uncaught, formVars>>

----------------------------------------------------------------------------
(* Specifications *)

NextNav == Load \/ ToggleClick \/ (\E i \in 1..MaxLinks : LinkClick(i))

NextLinks == Load \/ (\E i \in 1..MaxLinks : LinkClick(i))

NextForm == Load \/ Input \/ Submit \/ TimerFire \/ Tick

SpecNav == InitNav /\ [][NextNav]_vars

SpecLinks == InitLinks /\ [][NextLinks]_vars

SpecForm == InitForm /\ [][NextForm]_vars

----------------------------------------------------------------------------
(* Vocabulary of the properties, stated without the script's helpers *)

\* the part of s after its last "/" (all of s when it has none)
LastSegment(s) ==
    LET idx == {i \in 1..Len(s) : s[i] = "/"}
        k   == IF idx = {} THEN 0 ELSE CHOOSE j \in idx : \A m \in idx : m <= j
    IN  [i \in 1..(Len(s) - k) |-> s[k + i]]

\* F: the last segment of the URL path, an empty segment meaning 'index.html'
PageFile ==
    IF LastSegment(pathname) = <<>> THEN IndexHtml ELSE LastSegment(pathname)

\* the last segment of a link's href, an empty or missing href meaning 'index.html'
LinkFile(a) ==
    IF ~a.hasHref \/ a.href = <<>> THEN IndexHtml ELSE LastSegment(a.href)

ActiveSet == {i \in 1..Len(links) : links[i].active}

EmailEmpty == ~emailPresent \/ fields.subEmail = ""

\* the timer of the most recent successful submission is still pending
OwnTimerPending == \E k \in 1..Len(timers) : timers[k].id = nextTimerId - 1

\* the most recent submission found no timer pending
SubmittedAlone == lastSubmit.pending = 0

----------------------------------------------------------------------------
(* Properties *)

\* C1: in every reachable state the toggle's aria-expanded attribute is the
\* string form of the panel's open flag ("true" iff the panel has class 'open').
C1_AriaMirrorsPanel ==
    (navTogglePresent /\ mainNavPresent) =>
        (ariaExpanded = (IF open THEN "true" ELSE "false"))

\* C2: from a closed panel, after N toggle activations and no other event the
\* panel is open iff N is odd, and after each activation aria-expanded is the
\* string form of the panel's open flag.
C2_ToggleParity ==
    (pc = "ready" /\ navTogglePresent /\ mainNavPresent /\ ~initOpen /\ ~linkClicked) =>
        /\ open <=> (toggles % 2 = 1)
        /\ toggles > 0 => ariaExpanded = (IF open THEN "true" ELSE "false")

C2_Witness ==
    /\ pc = "ready" /\ navTogglePresent /\ mainNavPresent
    /\ ~initOpen /\ ~linkClicked
    /\ toggles = 3 /\ open /\ ariaExpanded = "true"

\* C3: after initialization a link is marked active iff the last segment of
\* its href (empty or missing href meaning 'index.html') equals the current
\* page's filename F; a pre-marked link that does not match loses the marker.
C3_ActiveIffMatch ==
    pc = "ready" =>
        \A i \in 1..Len(links) : links[i].active <=> (LinkFile(links[i]) = PageFile)

C3_Witness ==
    /\ pc = "ready"
    /\ Len(links) = 2
    /\ links[1].active /\ 1 \notin preMarked /\ ~links[1].hasHref
    /\ ~links[2].active /\ 2 \in preMarked /\ links[2].href = <<"/">>

\* C4 as stated: after initialization at most one link is marked active, for
\* every set of links, also when several resolve to the same filename.
C4_AtMostOneActive ==
    pc = "ready" => Cardinality(ActiveSet) <= 1

\* C4 as amended: after initialization at most one link is marked active
\* whenever no two links resolve to the same target filename.
C4_AtMostOneActiveDistinct ==
    (/\ pc = "ready"
     /\ \A i, j \in 1..Len(links) : i # j => LinkFile(links[i]) # LinkFile(links[j]))
        => Cardinality(ActiveSet) <= 1

C4_Witness ==
    /\ pc = "ready"
    /\ Len(links) = 2
    /\ LinkFile(links[1]) # LinkFile(links[2])
    /\ preMarked = {1, 2}
    /\ Cardinality(ActiveSet) = 1
    /\ last.ev = "link"

\* C5: absence of an optional element never produces an exception: with the
\* panel absent, activating the toggle or clicking a link raises no error.
C5_NoException ==
    uncaught = FALSE

\* C6: a submission with an empty email value or without the email input sets
\* the message to exactly "Please enter a valid email.", leaves every field
\* value unchanged and leaves the pending timers unchanged.
C6_EmptySubmit ==
    [][(last'.ev = "submit" /\ EmailEmpty) =>
          /\ msgPresent => msg' = "Please enter a valid email."
          /\ fields' = fields
          /\ timers' = timers]_vars

C6_Witness ==
    /\ last.ev = "submit" /\ lastSubmit.outcome = "empty"
    /\ msgPresent /\ msg = "Please enter a valid email."
    /\ emailPresent /\ fields # defaults
    /\ timers # <<>>

\* C7 as stated (its last part): after a successful submission with no further
\* submission, the message is the success text for as long as that
\* submission's own timer is pending.
C7_SuccessUntilOwnTimer ==
    (msgPresent /\ lastSubmit.outcome = "ok" /\ OwnTimerPending) =>
        msg = "Thanks -- you are subscribed!"

\* C7 as amended: a submission with a non-empty email sets the message to the
\* success text, resets the fields to their defaults and schedules one timer
\* due 3500 later; with no further submission the message is the success text
\* while that timer is pending if no earlier timer was pending at the
\* submission, is the success text or empty otherwise, and is empty once the
\* submission's own timer has fired, which happens no earlier than when due.
C7_SuccessThenCleared ==
    /\ [][(last'.ev = "submit" /\ ~EmailEmpty) =>
             /\ msgPresent => msg' = "Thanks -- you are subscribed!"
             /\ fields' = defaults
             /\ Len(timers') = Len(timers) + 1
             /\ SubSeq(timers', 1, Len(timers)) = timers
             /\ timers'[Len(timers')].due = now + 3500]_vars
    /\ [][last'.ev = "timer" => now >= timers[1].due]_vars
    /\ []((msgPresent /\ lastSubmit.outcome = "ok" /\ SubmittedAlone /\ OwnTimerPending) =>
             msg = "Thanks -- you are subscribed!")
    /\ []((msgPresent /\ lastSubmit.outcome = "ok" /\ OwnTimerPending) =>
             msg \in {"Thanks -- you are subscribed!", ""})
    /\ []((msgPresent /\ lastSubmit.outcome = "ok" /\ ~OwnTimerPending) => msg = "")

C7_Witness ==
    /\ msgPresent /\ lastSubmit.outcome = "ok" /\ SubmittedAlone /\ ~OwnTimerPending
    /\ last.ev = "timer" /\ last.msgBefore = "Thanks -- you are subscribed!"
    /\ msg = "" /\ now = 3500
    /\ fields = defaults /\ defaults.subEmail = ""

\* C8: every successful submission appends its own timer and no timer is ever
\* cancelled (timers leave only by firing, oldest first); right after a
\* successful submission, and until the next firing or submission, the message
\* is the success text; a firing blanks the message whatever timers remain.
C8_IndependentTimers ==
    /\ [][/\ (last'.ev = "submit" /\ ~EmailEmpty) =>
                timers' = Append(timers, [id |-> nextTimerId, due |-> now + 3500])
          /\ last'.ev = "timer" =>
                (timers # <<>> /\ timers' = Tail(timers) /\ (msgPresent => msg' = ""))
          /\ last'.ev \notin {"submit", "timer"} => (timers' = timers /\ msg' = msg)]_vars
    /\ []((msgPresent /\ last.ev = "submit" /\ lastSubmit.outcome = "ok") =>
             msg = "Thanks -- you are subscribed!")

\* the race: S1's timer has blanked the message S2 set while S2's own timer
\* is still pending
C8_Witness ==
    /\ msgPresent /\ lastSubmit.outcome = "ok" /\ OwnTimerPending
    /\ last.ev = "timer" /\ last.msgBefore = "Thanks -- you are subscribed!"
    /\ msg = ""

\* C9: a click on a navigation link leaves the panel closed, and neither link
\* clicks nor toggle activations change the set of links marked active.
C9_LinkClickCloses ==
    [][/\ last'.ev = "link" => ~open'
       /\ last'.ev \in {"link", "toggle"} => ActiveSet' = ActiveSet]_vars

C9_Witness ==
    /\ last.ev = "link" /\ mainNavPresent /\ ~open
    /\ ~initOpen /\ toggles = 1
    /\ ActiveSet # {}

\* C10: the message is always empty, the error text or the success text; a
\* firing timer empties it, the error text included; the error text set while
\* no timer is pending stays until the next submission.
C10_ErrorNotProtected ==
    /\ [](msg \in {"", "Please enter a valid email.", "Thanks -- you are subscribed!"})
    /\ [][(last'.ev = "timer" /\ msgPresent) => msg' = ""]_vars
    /\ []((msgPresent /\ lastSubmit.outcome = "empty" /\ SubmittedAlone) =>
             msg = "Please enter a valid email.")

C10_Witness ==
    /\ msgPresent /\ lastSubmit.outcome = "empty"
    /\ last.ev = "timer" /\ last.msgBefore = "Please enter a valid email."
    /\ msg = ""

====
